---- MODULE Spec2Model ----
(***************************************************************************)
(* Model of the SDL exporter of hiku (federation/sdl.py) over the graph    *)
(* model of hiku/graph.py.                                                 *)
(*                                                                         *)
(* Every Python value is a record with a field k naming its class:         *)
(*   None, Nothing (the sentinel of graph.py), str, bool, int, float,      *)
(*   list, object, tuple, and TypeError for a raised exception, which      *)
(*   every caller hands on unchanged (no handler exists in sdl.py).        *)
(* hiku.types values are records Optional/Sequence/TypeRef/Integer/...,    *)
(* graphql AST nodes are records named after their ast class.              *)
(***************************************************************************)
EXTENDS Integers, Sequences, FiniteSets, TLC

VARIABLES op, input, output

vars == <<op, input, output>>

(* ------------------------------ bounds --------------------------------- *)
MaxDepth == 3
MaxLen == 3
MaxFields == 2

(* --------------------------- Python values ----------------------------- *)
None == [k |-> "None"]
Nothing == [k |-> "Nothing"]
Str(s) == [k |-> "str", v |-> s]
Bool(b) == [k |-> "bool", v |-> b]
Int_(n) == [k |-> "int", v |-> n]
\* a float: nan, inf, or the finite number tenths/10
Float_(cls, tenths) == [k |-> "float", cls |-> cls, tenths |-> tenths]
List(s) == [k |-> "list", v |-> s]
Object == [k |-> "object"]
TypeError(msg) == [k |-> "TypeError", msg |-> msg]

IsErr(x) == x.k = "TypeError"

Min(S) == CHOOSE x \in S : \A y \in S : x <= y
Raised(s) == {i \in DOMAIN s : IsErr(s[i])}
\* Python evaluates the parts of an expression left to right; the first
\* part that raises ends the evaluation with its exception.
Try(parts, value) == IF Raised(parts) # {} THEN parts[Min(Raised(parts))] ELSE value
\* a list comprehension [f(x) for x in xs], given the sequence of f(x)
ListComp(s) == Try(s, List(s))

(* ----------------------------- hiku.types ------------------------------ *)
Optional(t) == [k |-> "Optional", type |-> t]
Sequence_(t) == [k |-> "Sequence", item |-> t]
TypeRef(n) == [k |-> "TypeRef", name |-> n]
Integer == [k |-> "Integer"]
String_ == [k |-> "String"]
Boolean_ == [k |-> "Boolean"]
Float == [k |-> "Float"]
Any_ == [k |-> "Any"]
\* a hiku type the encoder has no branch for
Mapping == [k |-> "Mapping"]

(* ------------------------------ _name ---------------------------------- *)
NameNode(s) == [k |-> "NameNode", value |-> s]

_name(value) == IF value.k = "None" THEN None ELSE NameNode(value.v)

(* --------------------------- _encode_type ------------------------------ *)
NonNullTypeNode(t) == [k |-> "NonNullTypeNode", type |-> t]
ListTypeNode(t) == [k |-> "ListTypeNode", type |-> t]
Tuple(t, o) == [k |-> "tuple", type |-> t, optional |-> o]

coerce(x) == IF x.k = "str" THEN _name(x) ELSE x

_non_null(val) == NonNullTypeNode(coerce(val))

\* a tuple's optional flag not looked at
not_null_always(val, kwOptional) ==
    IF IsErr(val) THEN val
    ELSE IF val.k = "tuple" THEN _non_null(val.type)
    ELSE IF kwOptional THEN Tuple(val, TRUE)
    ELSE _non_null(val)

\* the plain result wrapped twice
not_null_twice(val, kwOptional) ==
    IF IsErr(val) THEN val
    ELSE IF val.k = "tuple"
         THEN IF val.optional THEN coerce(val.type) ELSE _non_null(val.type)
    ELSE IF kwOptional THEN Tuple(val, TRUE)
    ELSE _non_null(_non_null(val))

\* the body of the decorator's dec, given the value func returned and
\* whether the call passed optional=True by keyword
not_null(val, kwOptional) ==
    IF IsErr(val) THEN val
    ELSE IF val.k = "tuple"
         THEN IF val.optional THEN coerce(val.type) ELSE _non_null(val.type)
    ELSE IF kwOptional THEN Tuple(val, TRUE)
    ELSE _non_null(val)

RECURSIVE _encode(_, _)
\* the decorated _encode: dec calling the undecorated function, whose own
\* recursive calls go through the decorated name again
_encode(val, kwOptional) ==
    LET func ==
          CASE val.k = "Optional" -> _encode(val.type, TRUE)
            [] val.k = "TypeRef" -> Str(val.name)
            [] val.k = "Integer" -> Str("Int")
            [] val.k = "String" -> Str("String")
            [] val.k = "Boolean" -> Str("Boolean")
            [] val.k = "Sequence" ->
                 LET item == _encode(val.item, FALSE)
                 IN  Try(<<item>>, ListTypeNode(item))
            [] val.k = "Any" -> Str("Any")
            [] val.k = "Float" -> Str("Float")
            [] val.k = "None" -> Str("")
            [] OTHER -> TypeError("Unsupported type")
    IN  not_null(func, kwOptional)

_encode_type(value) == _encode(value, FALSE)

(* ----------------------- _encode_default_value ------------------------- *)
NullValueNode == [k |-> "NullValueNode"]
BooleanValueNode(b) == [k |-> "BooleanValueNode", value |-> b]
IntValueNode(s) == [k |-> "IntValueNode", value |-> s]
FloatValueNode(s) == [k |-> "FloatValueNode", value |-> s]
StringValueNode(s) == [k |-> "StringValueNode", value |-> s]
ListValueNode(vs) == [k |-> "ListValueNode", values |-> vs]

Digit(n) == <<"0", "1", "2", "3", "4", "5", "6", "7", "8", "9">>[n + 1]

RECURSIVE Digits(_)
Digits(n) == IF n < 10 THEN Digit(n) ELSE Digits(n \div 10) \o Digit(n % 10)

\* f"{value:d}"; a bool formats as the int it is
FormatD(value) ==
    LET n == IF value.k = "bool" THEN (IF value.v THEN 1 ELSE 0) ELSE value.v
    IN  IF n < 0 THEN "-" \o Digits(0 - n) ELSE Digits(n)

\* f"{value:g}" of the finite float tenths/10: no trailing zeros, no
\* trailing point
FormatG(value) ==
    LET t == value.tenths
        a == IF t < 0 THEN 0 - t ELSE t
        whole == Digits(a \div 10)
        frac == IF a % 10 = 0 THEN "" ELSE "." \o Digit(a % 10)
    IN  (IF t < 0 THEN "-" ELSE "") \o whole \o frac

isfinite(value) == value.cls = "finite"

\* what filter(None, ...) keeps: None is false, an AST node is true
Truthy(x) == x.k # "None"

\* the branches of _encode_default_value that do not recurse; NoBranch
\* when none of them takes the value
NoBranch == [k |-> "no branch"]

\* the sentinel encoded like an explicit null
scalar_default_conflated(value) ==
    IF value = Nothing \/ value.k = "None" THEN NullValueNode
    ELSE IF value.k = "bool" THEN BooleanValueNode(value.v)
    ELSE IF value.k \in {"int", "bool"} THEN IntValueNode(FormatD(value))
    ELSE IF value.k = "float" /\ isfinite(value) THEN FloatValueNode(FormatG(value))
    ELSE IF value.k = "str" THEN StringValueNode(value.v)
    ELSE NoBranch

\* no isfinite test on a float
scalar_default_anyfloat(value) ==
    IF value = Nothing THEN None
    ELSE IF value.k = "None" THEN NullValueNode
    ELSE IF value.k = "bool" THEN BooleanValueNode(value.v)
    ELSE IF value.k \in {"int", "bool"} THEN IntValueNode(FormatD(value))
    ELSE IF value.k = "float"
         THEN FloatValueNode(IF isfinite(value) THEN FormatG(value) ELSE value.cls)
    ELSE IF value.k = "str" THEN StringValueNode(value.v)
    ELSE NoBranch

scalar_default(value) ==
    IF value = Nothing THEN None
    ELSE IF value.k = "None" THEN NullValueNode
    ELSE IF value.k = "bool" THEN BooleanValueNode(value.v)
    ELSE IF value.k \in {"int", "bool"} THEN IntValueNode(FormatD(value))
    ELSE IF value.k = "float" /\ isfinite(value) THEN FloatValueNode(FormatG(value))
    ELSE IF value.k = "str" THEN StringValueNode(value.v)
    ELSE NoBranch

\* ast.ListValueNode(values=[value_nodes])
list_literal(value_nodes) == ListValueNode(List(<<List(value_nodes)>>))

RECURSIVE _encode_default_value(_)
_encode_default_value(value) ==
    IF scalar_default(value) # NoBranch THEN scalar_default(value)
    ELSE IF value.k = "list"
         THEN LET maybe_value_nodes ==
                    [i \in DOMAIN value.v |-> _encode_default_value(value.v[i])]
                  value_nodes == SelectSeq(maybe_value_nodes, Truthy)
              IN  Try(maybe_value_nodes, list_literal(value_nodes))
    ELSE TypeError("Cannot convert value to AST")

(* ---------------------- _encode_directive_arg_type --------------------- *)
NON_NULL(t) == [k |-> "NON_NULL", of_type |-> t]
SCALAR(n) == [k |-> "SCALAR", name |-> n]
LIST(t) == [k |-> "LIST", of_type |-> t]
Class(n) == [k |-> "class", name |-> n]

RECURSIVE _encode_directive_arg_type(_)
_encode_directive_arg_type(value) ==
    IF value.k = "NON_NULL" THEN _encode_directive_arg_type(value.of_type)
    ELSE IF value.k = "SCALAR"
         THEN IF value.name = "String" THEN Class("StringValueNode") ELSE None
    ELSE TypeError("Unsupported arg type")

(* ---------------------------- graph model ------------------------------ *)
\* names are Python values: Str(...) or None; sequences are TLA+ sequences
Option(name, type, default) ==
    [k |-> "Option", name |-> name, type |-> type, default |-> default,
     description |-> None]
Field(name, type, options, directives) ==
    [k |-> "Field", name |-> name, type |-> type, options |-> options,
     directives |-> directives, description |-> None]
Link(name, type, options) ==
    [k |-> "Link", name |-> name, type |-> type, options |-> options,
     description |-> None]
Node(name, fields, description, directives) ==
    [k |-> "Node", name |-> name, fields |-> fields,
     description |-> description, directives |-> directives]
Root(items) == [k |-> "Root", name |-> None, fields |-> items]
Graph(items, data_types) ==
    [k |-> "Graph", items |-> items, data_types |-> data_types]
\* data_types and __field_types__ are insertion-ordered maps: sequences of
\* entries with distinct keys
Entry(key, value) == [key |-> key, value |-> value]
Record(field_types) == [k |-> "Record", field_types |-> field_types]
Directive(name, args) == [k |-> "Directive", name |-> name, args |-> args]
Arg(name, type, value) == [k |-> "Arg", name |-> name, type |-> type, value |-> value]

\* the keys of Edge.fields_map
fields_map(obj) == {obj.fields[i].name : i \in DOMAIN obj.fields}

startswith(s, prefix) ==
    /\ Len(s) >= Len(prefix)
    /\ SubSeq(s, 1, Len(prefix)) = prefix

(* -------------------------- GraphTransformer --------------------------- *)
GraphTransformer_visit_option(obj) == Option(obj.name, obj.type, obj.default)

GraphTransformer_visit_field(obj) ==
    Field(obj.name, obj.type,
          [i \in DOMAIN obj.options |-> GraphTransformer_visit_option(obj.options[i])],
          obj.directives)

GraphTransformer_visit_link(obj) ==
    Link(obj.name, obj.type,
         [i \in DOMAIN obj.options |-> GraphTransformer_visit_option(obj.options[i])])

\* obj.accept(self) of a member of an Edge
GraphTransformer_visit(obj) ==
    IF obj.k = "Link" THEN GraphTransformer_visit_link(obj)
    ELSE GraphTransformer_visit_field(obj)

(* ------------------------------ _StripGraph ---------------------------- *)
root_skip(field) == field.name.v \in {"__typename", "_entities"}
root_keep(field) == ~root_skip(field)

\* drops the first reserved member only
StripGraph_visit_root_first(obj) ==
    LET hits == {i \in DOMAIN obj.fields : root_skip(obj.fields[i])}
        kept == IF hits = {} THEN obj.fields
                ELSE [i \in 1..(Len(obj.fields) - 1) |->
                        IF i < Min(hits) THEN obj.fields[i] ELSE obj.fields[i + 1]]
    IN  Root([i \in DOMAIN kept |-> GraphTransformer_visit(kept[i])])

StripGraph_visit_root(obj) ==
    LET kept == SelectSeq(obj.fields, root_keep)
    IN  Root([i \in DOMAIN kept |-> GraphTransformer_visit(kept[i])])

node_skip(field) == field.name.v \in {"__typename"}
node_keep(field) == ~node_skip(field)

\* keeps every member
StripGraph_visit_node_all(obj) ==
    Node(obj.name,
         [i \in DOMAIN obj.fields |-> GraphTransformer_visit(obj.fields[i])],
         obj.description, obj.directives)

StripGraph_visit_node(obj) ==
    LET kept == SelectSeq(obj.fields, node_keep)
    IN  Node(obj.name,
             [i \in DOMAIN kept |-> GraphTransformer_visit(kept[i])],
             obj.description, obj.directives)

\* node.accept(self) of an item of the graph
StripGraph_visit_item(node) ==
    IF node.k = "Root" THEN StripGraph_visit_root(node)
    ELSE StripGraph_visit_node(node)

graph_skip(node) ==
    IF node.name.k = "None" THEN Str("__schema") \in fields_map(node)
    ELSE startswith(node.name.v, "__")
graph_keep(node) == ~graph_skip(node)

StripGraph_visit_graph(obj) ==
    LET kept == SelectSeq(obj.items, graph_keep)
    IN  Graph([i \in DOMAIN kept |-> StripGraph_visit_item(kept[i])],
              obj.data_types)

(* ------------------------------- Exporter ------------------------------ *)
ScalarTypeDefinitionNode(name) == [k |-> "ScalarTypeDefinitionNode", name |-> name]
ObjectTypeExtensionNode(name, fields, directives) ==
    [k |-> "ObjectTypeExtensionNode", name |-> name, fields |-> fields,
     directives |-> directives]
ObjectTypeDefinitionNode(name, fields, directives) ==
    [k |-> "ObjectTypeDefinitionNode", name |-> name, fields |-> fields,
     directives |-> directives]
\* an attribute the constructor is not given is None
FieldDefinitionNode(name, type, arguments, directives) ==
    [k |-> "FieldDefinitionNode", name |-> name, type |-> type,
     arguments |-> arguments, directives |-> directives]
DirectiveNode(name, arguments) ==
    [k |-> "DirectiveNode", name |-> name, arguments |-> arguments]
ArgumentNode(name, value) == [k |-> "ArgumentNode", name |-> name, value |-> value]
InputValueDefinitionNode(name, description, type, default_value) ==
    [k |-> "InputValueDefinitionNode", name |-> name, description |-> description,
     type |-> type, default_value |-> default_value]
DocumentNode(definitions) == [k |-> "DocumentNode", definitions |-> definitions]

\* calling what _encode_directive_arg_type returned with value=...
construct(cls, value) ==
    IF IsErr(cls) THEN cls
    ELSE IF cls.k = "class" THEN [k |-> cls.name, value |-> value]
    ELSE TypeError("'NoneType' object is not callable")

get_any_type == ScalarTypeDefinitionNode(_name(Str("Any")))

Exporter_visit_option(obj) ==
    LET name == _name(obj.name)
        type == _encode_type(obj.type)
        default_value == _encode_default_value(obj.default)
    IN  Try(<<name, type, default_value>>,
            InputValueDefinitionNode(name, obj.description, type, default_value))

Exporter_visit_directive_arg(arg) ==
    LET name == _name(arg.name)
        value == construct(_encode_directive_arg_type(arg.type), arg.value)
    IN  Try(<<name, value>>, ArgumentNode(name, value))

Exporter_visit_directive(obj) ==
    LET name == _name(obj.name)
        arguments == ListComp([i \in DOMAIN obj.args |->
                                 Exporter_visit_directive_arg(obj.args[i])])
    IN  Try(<<name, arguments>>, DirectiveNode(name, arguments))

Exporter_visit_field(obj) ==
    LET name == _name(obj.name)
        type == _encode_type(obj.type)
        arguments == ListComp([i \in DOMAIN obj.options |->
                                 Exporter_visit_option(obj.options[i])])
        directives == ListComp([i \in DOMAIN obj.directives |->
                                  Exporter_visit_directive(obj.directives[i])])
    IN  Try(<<name, type, arguments, directives>>,
            FieldDefinitionNode(name, type, arguments, directives))

Exporter_visit_link(obj) ==
    LET name == _name(obj.name)
        arguments == ListComp([i \in DOMAIN obj.options |->
                                 Exporter_visit_option(obj.options[i])])
        type == _encode_type(obj.type)
    IN  Try(<<name, arguments, type>>,
            FieldDefinitionNode(name, type, arguments, None))

\* obj.accept(self) of a member of an Edge
Exporter_visit_member(obj) ==
    IF obj.k = "Link" THEN Exporter_visit_link(obj) ELSE Exporter_visit_field(obj)

Exporter_visit_root(obj) ==
    LET name == _name(Str("Query"))
        fields == ListComp([i \in DOMAIN obj.fields |->
                              Exporter_visit_member(obj.fields[i])])
    IN  Try(<<name, fields>>, ObjectTypeExtensionNode(name, fields, List(<<>>)))

Exporter_visit_node(obj) ==
    LET fields == ListComp([i \in DOMAIN obj.fields |->
                              Exporter_visit_member(obj.fields[i])])
        name == _name(obj.name)
        directives == ListComp([i \in DOMAIN obj.directives |->
                                  Exporter_visit_directive(obj.directives[i])])
    IN  Try(<<fields, name, directives>>,
            ObjectTypeDefinitionNode(name, fields, directives))

new_field(name, type_) ==
    LET n == _name(name)
        type == _encode_type(type_)
    IN  Try(<<n, type>>, FieldDefinitionNode(n, type, None, None))

Exporter_visit_record(type_name, obj) ==
    LET fields == ListComp([i \in DOMAIN obj.field_types |->
                              new_field(obj.field_types[i].key, obj.field_types[i].value)])
        name == _name(type_name)
    IN  Try(<<fields, name>>, ObjectTypeDefinitionNode(name, fields, None))

\* item.accept(self) of an item of the graph
Exporter_visit_item(item) ==
    IF item.k = "Root" THEN Exporter_visit_root(item) ELSE Exporter_visit_node(item)

records_of(obj) ==
    [i \in DOMAIN obj.data_types |->
       Exporter_visit_record(obj.data_types[i].key, obj.data_types[i].value)]
items_of(obj) == [i \in DOMAIN obj.items |-> Exporter_visit_item(obj.items[i])]

\* the graph's items ahead of its data types
Exporter_visit_graph_items_first(obj) ==
    ListComp(<<get_any_type>> \o items_of(obj) \o records_of(obj))

Exporter_visit_graph(obj) ==
    ListComp(<<get_any_type>> \o records_of(obj) \o items_of(obj))

get_ast(graph) ==
    LET stripped == StripGraph_visit_graph(graph)
        definitions == Exporter_visit_graph(stripped)
    IN  Try(<<definitions>>, DocumentNode(definitions))

(* ------------------------------ inputs --------------------------------- *)
SeqsUpTo(S, n) == UNION {[1..m -> S] : m \in 0..n}

Scalars ==
    {Nothing, None, Bool(TRUE), Bool(FALSE), Int_(0), Int_(10), Int_(0 - 3),
     Int_(120), Float_("finite", 15), Float_("finite", 10), Float_("finite", 0 - 5),
     Float_("inf", 0), Float_("nan", 0), Str("x"), Str(""), Object}
ListElems == {Nothing, None, Int_(10), Float_("inf", 0), Str("x")}
InnerLists == {Nothing, List(<<>>), List(<<Nothing>>), List(<<Int_(10)>>)}
AllValues ==
    Scalars \cup {List(s) : s \in SeqsUpTo(ListElems, MaxLen)}
            \cup {List(s) : s \in SeqsUpTo(InnerLists, 2)}

ScalarNames == {"String", "Int", "Boolean"}
ArgTypes0 == {SCALAR(n) : n \in ScalarNames} \cup {LIST(SCALAR("String"))}
ArgTypes1 == ArgTypes0 \cup {NON_NULL(t) : t \in ArgTypes0}
AllArgTypes == ArgTypes1 \cup {NON_NULL(t) : t \in ArgTypes1}

\* sequences without repeated elements
DistinctSeqs(S, n) ==
    {s \in SeqsUpTo(S, n) : \A i, j \in DOMAIN s : i # j => s[i] # s[j]}

\* graphs that differ in which names occur where
RootFieldNames == {"__typename", "_entities", "__schema", "version"}
NodeFieldNames == {"__typename", "_entities", "id"}
NodeNames == {"User", "__Type"}
PlainFields(names) == [i \in DOMAIN names |-> Field(Str(names[i]), String_, <<>>, <<>>)]
StructRoots == {Root(PlainFields(ns)) : ns \in DistinctSeqs(RootFieldNames, MaxFields)}
StructNodes ==
    {Node(Str(n), PlainFields(ns), None, <<>>) :
        n \in NodeNames, ns \in DistinctSeqs(NodeFieldNames, MaxFields)}
StructItems ==
    {s \in SeqsUpTo(StructRoots \cup StructNodes, Cardinality(NodeNames) + 1) :
        \A i, j \in DOMAIN s : i # j => s[i].name # s[j].name}
StructGraphs == {Graph(items, <<>>) : items \in StructItems}

\* graphs of one item with one member that differ in what the member carries
MemberNames == {"__typename", "id"}
MemberTypes == {String_, Optional(Integer), Sequence_(TypeRef("User")), Mapping}
OptionTypes == {Integer, Mapping}
OptionDefaults ==
    {Nothing, None, Int_(10), Float_("finite", 15), Float_("inf", 0), Object,
     List(<<Int_(10), Nothing>>), List(<<Float_("nan", 0)>>)}
MemberOptions ==
    {<<>>} \cup {<<Option(Str("limit"), t, d)>> : t \in OptionTypes, d \in OptionDefaults}
MemberDirectives ==
    {<<>>, <<Directive(Str("external"), <<>>)>>}
      \cup {<<Directive(Str("key"), <<Arg(Str("fields"), t, Str("id"))>>)>> :
              t \in ArgTypes1}
Members ==
    {Field(Str(n), t, os, ds) :
        n \in MemberNames, t \in MemberTypes, os \in MemberOptions, ds \in MemberDirectives}
      \cup {Link(Str(n), t, os) : n \in MemberNames, t \in MemberTypes, os \in MemberOptions}
MemberGraphs ==
    {Graph(<<Root(<<m>>)>>, <<>>) : m \in Members}
      \cup {Graph(<<Node(Str("User"), <<m>>, None, <<>>)>>, <<>>) : m \in Members}

\* graphs that differ in their data types
RecordFields ==
    {Entry(Str("x"), Integer), Entry(Str("__typename"), String_),
     Entry(Str("tags"), Optional(Sequence_(String_))), Entry(Str("m"), Mapping)}
RecordNames == {"Point", "Any"}
DataTypes ==
    {Entry(Str(n), Record(fs)) : n \in RecordNames, fs \in DistinctSeqs(RecordFields, MaxFields)}
DataTypeMaps ==
    {s \in SeqsUpTo(DataTypes, Cardinality(RecordNames)) :
        \A i, j \in DOMAIN s : i # j => s[i].key # s[j].key}
RecordGraphs ==
    {Graph(<<Node(Str("User"), PlainFields(<<"id">>), None, <<>>),
             Root(PlainFields(<<"__typename", "version">>))>>, dts) : dts \in DataTypeMaps}

AllGraphs == StructGraphs \cup MemberGraphs \cup RecordGraphs

AllOptions ==
    {Option(Str("limit"), t, d) :
        t \in {Integer, Optional(Integer), None, Mapping}, d \in AllValues}
AllArgs == {Arg(Str("fields"), t, Str("id")) : t \in AllArgTypes}

TypeNames == {"User"}
Terminals == {Integer, String_, Boolean_, Float, Any_, Mapping, None}
               \cup {TypeRef(n) : n \in TypeNames}

RECURSIVE TypesOfDepth(_)
TypesOfDepth(d) ==
    IF d = 0 THEN Terminals
    ELSE LET sub == TypesOfDepth(d - 1)
         IN  Terminals \cup {Optional(t) : t \in sub} \cup {Sequence_(t) : t \in sub}

AllTypes == TypesOfDepth(MaxDepth)

RECURSIVE InClosedSet(_)
\* the TypeExpr variants of the encoder's closed set
InClosedSet(t) ==
    CASE t.k = "Optional" -> InClosedSet(t.type)
      [] t.k = "Sequence" -> InClosedSet(t.item)
      [] OTHER -> t.k \in {"TypeRef", "Integer", "String", "Boolean", "Float", "Any"}

RECURSIVE HasForeignType(_)
\* a type with a variant outside the closed set in it; None is the absence
\* of a type, not a variant
HasForeignType(t) ==
    CASE t.k = "Optional" -> HasForeignType(t.type)
      [] t.k = "Sequence" -> HasForeignType(t.item)
      [] OTHER -> t.k \notin {"TypeRef", "Integer", "String", "Boolean", "Float", "Any", "None"}

RECURSIVE Unencodable(_)
\* a default that is none of Nothing/null/bool/int/finite float/string/iterable,
\* or an iterable with such an element
Unencodable(v) ==
    CASE v.k = "float" -> v.cls # "finite"
      [] v.k = "list" -> \E i \in DOMAIN v.v : Unencodable(v.v[i])
      [] OTHER -> v.k \notin {"Nothing", "None", "bool", "int", "str"}

(* ------------------------------ actions -------------------------------- *)
Init ==
    /\ op = "none"
    /\ input = None
    /\ output = None

EncodeType ==
    /\ op = "none"
    /\ \E t \in AllTypes :
        /\ op' = "_encode_type"
        /\ input' = t
        /\ output' = _encode_type(t)

EncodeDefaultValue ==
    /\ op = "none"
    /\ \E v \in AllValues :
        /\ op' = "_encode_default_value"
        /\ input' = v
        /\ output' = _encode_default_value(v)

EncodeDirectiveArgType ==
    /\ op = "none"
    /\ \E t \in AllArgTypes :
        /\ op' = "_encode_directive_arg_type"
        /\ input' = t
        /\ output' = _encode_directive_arg_type(t)

VisitOption ==
    /\ op = "none"
    /\ \E o \in AllOptions :
        /\ op' = "visit_option"
        /\ input' = o
        /\ output' = Exporter_visit_option(o)

VisitDirectiveArg ==
    /\ op = "none"
    /\ \E a \in AllArgs :
        /\ op' = "visit_directive_arg"
        /\ input' = a
        /\ output' = Exporter_visit_directive_arg(a)

VisitGraph ==
    /\ op = "none"
    /\ \E g \in AllGraphs :
        /\ op' = "visit_graph"
        /\ input' = g
        /\ output' = Exporter_visit_graph(g)

StripGraph ==
    /\ op = "none"
    /\ \E g \in AllGraphs :
        /\ op' = "_StripGraph"
        /\ input' = g
        /\ output' = StripGraph_visit_graph(g)

GetAst ==
    /\ op = "none"
    /\ \E g \in AllGraphs :
        /\ op' = "get_ast"
        /\ input' = g
        /\ output' = get_ast(g)

Next ==
    \/ EncodeType
    \/ EncodeDefaultValue
    \/ EncodeDirectiveArgType
    \/ VisitOption
    \/ VisitDirectiveArg
    \/ VisitGraph
    \/ StripGraph
    \/ GetAst

Spec == Init /\ [][Next]_vars

(* ------------------------------- claims -------------------------------- *)
IntT == NameNode("Int")

\* C1: for every T of the closed set, _encode_type(Optional(Optional(T)))
\* is the node _encode_type(Optional(T)) and has no outer non-null wrapper.
C1_DoubleOptionalFlattens ==
    (op = "_encode_type" /\ InClosedSet(input)
       /\ input.k = "Optional" /\ input.type.k = "Optional")
    => /\ output = _encode_type(input.type)
       /\ output.k # "NonNullTypeNode"

\* C2: for every type of the closed set that is not Optional(...), the
\* encoded node is a non-null wrapper around a node that is not one.
C2_NonOptionalWrappedOnce ==
    (op = "_encode_type" /\ InClosedSet(input) /\ input.k # "Optional")
    => /\ output.k = "NonNullTypeNode"
       /\ output.type.k # "NonNullTypeNode"

C2_Witness ==
    /\ op = "_encode_type"
    /\ input = Sequence_(Sequence_(TypeRef("User")))
    /\ output.k = "NonNullTypeNode"

\* C3: a Sequence's item is encoded from the item's own type whatever wraps
\* the Sequence: Sequence(Optional(Integer)) is [Int]!, Optional(Sequence(Integer))
\* is [Int!], and in general the list node holds the item's own encoding.
C3_SequenceItemNullability ==
    op = "_encode_type" =>
      /\ input = Sequence_(Optional(Integer))
           => output = NonNullTypeNode(ListTypeNode(IntT))
      /\ input = Optional(Sequence_(Integer))
           => output = ListTypeNode(NonNullTypeNode(IntT))
      /\ (input.k = "Sequence" /\ ~IsErr(output))
           => output = NonNullTypeNode(ListTypeNode(_encode_type(input.item)))
      /\ (input.k = "Optional" /\ input.type.k = "Sequence" /\ ~IsErr(output))
           => output = ListTypeNode(_encode_type(input.type.item))

C3_Witness ==
    /\ op = "_encode_type"
    /\ input = Optional(Sequence_(Integer))
    /\ output.k = "ListTypeNode"

\* the names of the members of an item, and of the fields of a definition
MemberNamesOf(item) == [i \in DOMAIN item.fields |-> item.fields[i].name.v]
FieldNamesOf(def) == [i \in DOMAIN def.fields.v |-> def.fields.v[i].name.value]

HasField(def, name) == \E i \in DOMAIN def.fields.v : def.fields.v[i].name.value = name

TypesIn(g) ==
    UNION {UNION {{g.items[i].fields[j].type}
                    \cup {g.items[i].fields[j].options[n].type :
                            n \in DOMAIN g.items[i].fields[j].options} :
                  j \in DOMAIN g.items[i].fields} : i \in DOMAIN g.items}
      \cup UNION {{g.data_types[i].value.field_types[j].value :
                     j \in DOMAIN g.data_types[i].value.field_types} :
                  i \in DOMAIN g.data_types}
DefaultsIn(g) ==
    UNION {UNION {{g.items[i].fields[j].options[n].default :
                     n \in DOMAIN g.items[i].fields[j].options} :
                  j \in DOMAIN g.items[i].fields} : i \in DOMAIN g.items}

NotNothing(v) == v # Nothing

\* C9: for an iterable default the list literal's elements are, in order, the
\* encoded non-Absent elements of the iterable, and as many as those.
C9_ListLiteralElements ==
    (op = "_encode_default_value" /\ input.k = "list" /\ ~IsErr(output)) =>
      LET present == SelectSeq(input.v, NotNothing)
      IN  /\ output.k = "ListValueNode"
          /\ Len(output.values.v) = Len(present)
          /\ \A i \in DOMAIN present :
                output.values.v[i] = _encode_default_value(present[i])

RECURSIVE of_type(_)
of_type(t) == IF t.k = "NON_NULL" THEN of_type(t.of_type) ELSE t

\* C10: _encode_directive_arg_type unwraps non-null, gives the string literal
\* constructor for the scalar String, and raises for every other scalar.
C10_OtherScalarRaises ==
    (op = "_encode_directive_arg_type" /\ of_type(input).k = "SCALAR") =>
      IF of_type(input).name = "String"
      THEN output = Class("StringValueNode")
      ELSE IsErr(output)

====
